---- MODULE Spec2Model ----
(***************************************************************************)
(* Model of src/configsettings.py: the ExchangeConfig dataclass, the       *)
(* Settings singleton and its loaders (_load_exchange_configs,             *)
(* _parse_markets, _validate_configuration).                               *)
(*                                                                         *)
(* Python strings whose content the code inspects (lower(), upper(),       *)
(* strip(), split(",")) are sequences of one-character strings.  Exchange  *)
(* names and log/error messages are TLA+ strings.                          *)
(***************************************************************************)
EXTENDS Integers, Sequences, FiniteSets, TLC

(***************************************************************************)
(* Bounds of the model.                                                    *)
(***************************************************************************)
MaxEnvOps == 2
MaxCalls == 2
MaxTokens == 3

(***************************************************************************)
(* Characters and the str methods the code uses.                           *)
(***************************************************************************)
LowerLetters ==
  <<"a","b","c","d","e","f","g","h","i","j","k","l","m",
    "n","o","p","q","r","s","t","u","v","w","x","y","z">>

UpperLetters ==
  <<"A","B","C","D","E","F","G","H","I","J","K","L","M",
    "N","O","P","Q","R","S","T","U","V","W","X","Y","Z">>

(***************************************************************************)
(* A character is a one-character string; a character that has no string   *)
(* literal is written as its code point, "U+0131".  The characters of the  *)
(* model are ASCII, the whitespace of str.strip(), and every character     *)
(* whose upper() or lower() contains an ASCII letter, with the combining   *)
(* marks those mappings produce; on these the tables below are those of    *)
(* Python.  Other cased characters (for instance accented letters) are     *)
(* not inputs of the model.                                                *)
(***************************************************************************)
\* the characters str.strip() removes
Whitespace ==
  {" ", "\t", "\n", "\r", "\f", "U+000B", "U+001C", "U+001D", "U+001E", "U+001F",
   "U+0085", "U+00A0", "U+1680", "U+2000", "U+2001", "U+2002", "U+2003", "U+2004",
   "U+2005", "U+2006", "U+2007", "U+2008", "U+2009", "U+200A", "U+2028", "U+2029",
   "U+202F", "U+205F", "U+3000"}

\* c.upper() for one character: a string of one or more characters
UpperChar(c) ==
  IF \E i \in 1..Len(LowerLetters) : LowerLetters[i] = c
    THEN << UpperLetters[CHOOSE i \in 1..Len(LowerLetters) : LowerLetters[i] = c] >>
  ELSE CASE c = "U+00DF" -> <<"S", "S">>
         [] c = "U+0131" -> <<"I">>
         [] c = "U+0149" -> <<"U+02BC", "N">>
         [] c = "U+017F" -> <<"S">>
         [] c = "U+01F0" -> <<"J", "U+030C">>
         [] c = "U+1E96" -> <<"H", "U+0331">>
         [] c = "U+1E97" -> <<"T", "U+0308">>
         [] c = "U+1E98" -> <<"W", "U+030A">>
         [] c = "U+1E99" -> <<"Y", "U+030A">>
         [] c = "U+1E9A" -> <<"A", "U+02BE">>
         [] c = "U+FB00" -> <<"F", "F">>
         [] c = "U+FB01" -> <<"F", "I">>
         [] c = "U+FB02" -> <<"F", "L">>
         [] c = "U+FB03" -> <<"F", "F", "I">>
         [] c = "U+FB04" -> <<"F", "F", "L">>
         [] c = "U+FB05" -> <<"S", "T">>
         [] c = "U+FB06" -> <<"S", "T">>
         [] OTHER -> << c >>

\* c.lower() for one character
LowerChar(c) ==
  IF \E i \in 1..Len(UpperLetters) : UpperLetters[i] = c
    THEN << LowerLetters[CHOOSE i \in 1..Len(UpperLetters) : UpperLetters[i] = c] >>
  ELSE CASE c = "U+0130" -> <<"i", "U+0307">>
         [] c = "U+212A" -> <<"k">>
         [] OTHER -> << c >>

\* str.upper()
RECURSIVE upper(_)
upper(s) == IF s = << >> THEN << >> ELSE UpperChar(Head(s)) \o upper(Tail(s))

\* str.lower()
RECURSIVE lower(_)
lower(s) == IF s = << >> THEN << >> ELSE LowerChar(Head(s)) \o lower(Tail(s))

RECURSIVE lstrip(_)
lstrip(s) ==
  IF s # << >> /\ Head(s) \in Whitespace THEN lstrip(Tail(s)) ELSE s

RECURSIVE rstrip(_)
rstrip(s) ==
  IF s # << >> /\ s[Len(s)] \in Whitespace
    THEN rstrip(SubSeq(s, 1, Len(s) - 1))
    ELSE s

\* str.strip()
strip(s) == rstrip(lstrip(s))

\* str.split(","): the pieces between commas, empty pieces kept
RECURSIVE splitFrom(_, _, _)
splitFrom(s, i, cur) ==
  IF i > Len(s) THEN << cur >>
  ELSE IF s[i] = "," THEN << cur >> \o splitFrom(s, i + 1, << >>)
  ELSE splitFrom(s, i + 1, Append(cur, s[i]))

split(s) == splitFrom(s, 1, << >>)

(***************************************************************************)
(* String literals of the source, as character sequences.                  *)
(***************************************************************************)
EmptyStr == << >>

S_true == <<"t","r","u","e">>

S_false == <<"f","a","l","s","e">>

S_CRYPTO == <<"C","R","Y","P","T","O">>

S_EQUITIES == <<"E","Q","U","I","T","I","E","S">>

S_FOREX == <<"F","O","R","E","X">>

S_FUTURES == <<"F","U","T","U","R","E","S">>

S_INFO == <<"I","N","F","O">>

(***************************************************************************)
(* class MarketType(Enum): members are looked up by NAME in _parse_markets *)
(* (MarketType[...]); a member is represented by its name.                 *)
(***************************************************************************)
MarketType == {"CRYPTO", "EQUITIES", "FOREX", "FUTURES"}

\* the names for which MarketType[key] does not raise KeyError
MarketTypeHasKey(key) == key \in {S_CRYPTO, S_EQUITIES, S_FOREX, S_FUTURES}

\* MarketType[key] for a key that is a member name
MarketTypeGetItem(key) ==
  CASE key = S_CRYPTO -> "CRYPTO"
    [] key = S_EQUITIES -> "EQUITIES"
    [] key = S_FOREX -> "FOREX"
    [] key = S_FUTURES -> "FUTURES"

(***************************************************************************)
(* class RiskTolerance(Enum) and @dataclass TradingConfig.  Fractions are  *)
(* pairs <<numerator, denominator>>.                                       *)
(***************************************************************************)
RiskTolerance ==
  [CONSERVATIVE |-> <<1, 4>>, MODERATE |-> <<1, 2>>, AGGRESSIVE |-> <<3, 4>>]

TradingConfig ==
  [max_position_size |-> <<1, 10>>,
   daily_loss_limit |-> <<2, 100>>,
   risk_tolerance |-> "MODERATE",
   slippage_tolerance |-> <<5, 1000>>,
   minimum_volume |-> <<10000, 1>>,
   heartbeat_interval |-> 60,
   market_data_refresh |-> 30]

(***************************************************************************)
(* @dataclass ExchangeConfig.                                              *)
(***************************************************************************)
DefaultRateLimit == 1000

\* a logging.warning(...) record: the message text and the interpolated value
\* when that value is a character sequence
MissingCredentialsWarning(name) ==
  [text |-> "Exchange " \o name \o ": Missing API credentials for production mode",
   arg |-> << >>]

\* variant: the credentials test is `not (api_key or api_secret)`
ExchangeConfig_post_init_EitherCredential(self) ==
  IF self.name = ""
    THEN [raised |-> TRUE, warnings |-> << >>]
    ELSE [raised |-> FALSE,
          warnings |->
            IF ~self.sandbox /\ ~(self.api_key # EmptyStr \/ self.api_secret # EmptyStr)
              THEN << MissingCredentialsWarning(self.name) >>
              ELSE << >>]

\* variant: missing production credentials are rejected like an empty name
ExchangeConfig_post_init_RaiseOnCredentials(self) ==
  IF self.name = ""
       \/ (~self.sandbox /\ ~(self.api_key # EmptyStr /\ self.api_secret # EmptyStr))
    THEN [raised |-> TRUE, warnings |-> << >>]
    ELSE [raised |-> FALSE, warnings |-> << >>]

\* __post_init__: the outcome of validating a freshly filled instance
ExchangeConfig_post_init(self) ==
  IF self.name = ""
    THEN [raised |-> TRUE, warnings |-> << >>]
    ELSE [raised |-> FALSE,
          warnings |->
            IF ~self.sandbox /\ ~(self.api_key # EmptyStr /\ self.api_secret # EmptyStr)
              THEN << MissingCredentialsWarning(self.name) >>
              ELSE << >>]

\* ExchangeConfig(...): the generated __init__ followed by __post_init__
ExchangeConfig(name, api_key, api_secret, sandbox, rate_limit, enabled) ==
  LET self == [name |-> name, api_key |-> api_key, api_secret |-> api_secret,
               sandbox |-> sandbox, rate_limit |-> rate_limit, enabled |-> enabled]
      post == ExchangeConfig_post_init(self)
  IN  [raised |-> post.raised, obj |-> self, warnings |-> post.warnings]

(***************************************************************************)
(* The environment is a finite map from variable names to values.          *)
(***************************************************************************)
\* os.getenv(key, default)
getenv(e, key, default) == IF key \in DOMAIN e THEN e[key] ELSE default

exchange_names == <<"binance", "coinbase", "kraken", "bybit">>

\* name.upper() for the hard-coded exchange names
NameUpper(name) ==
  CASE name = "binance" -> "BINANCE"
    [] name = "coinbase" -> "COINBASE"
    [] name = "kraken" -> "KRAKEN"
    [] name = "bybit" -> "BYBIT"

\* variant: enabled is read from the _SANDBOX variable
LoadOneExchange_EnabledFromSandbox(e, name) ==
  LET api_key == getenv(e, NameUpper(name) \o "_API_KEY", EmptyStr)
      api_secret == getenv(e, NameUpper(name) \o "_API_SECRET", EmptyStr)
      sandbox == lower(getenv(e, NameUpper(name) \o "_SANDBOX", S_true)) = S_true
      enabled == lower(getenv(e, NameUpper(name) \o "_SANDBOX", S_false)) = S_true
  IN  ExchangeConfig(name, api_key, api_secret, sandbox, DefaultRateLimit, enabled)

\* variant: the default of _SANDBOX is "false"
LoadOneExchange_SandboxDefaultFalse(e, name) ==
  LET api_key == getenv(e, NameUpper(name) \o "_API_KEY", EmptyStr)
      api_secret == getenv(e, NameUpper(name) \o "_API_SECRET", EmptyStr)
      sandbox == lower(getenv(e, NameUpper(name) \o "_SANDBOX", S_false)) = S_true
      enabled == lower(getenv(e, NameUpper(name) \o "_ENABLED", S_false)) = S_true
  IN  ExchangeConfig(name, api_key, api_secret, sandbox, DefaultRateLimit, enabled)

\* variant: the flags are trimmed before the comparison
LoadOneExchange_Trimmed(e, name) ==
  LET api_key == getenv(e, NameUpper(name) \o "_API_KEY", EmptyStr)
      api_secret == getenv(e, NameUpper(name) \o "_API_SECRET", EmptyStr)
      sandbox == lower(strip(getenv(e, NameUpper(name) \o "_SANDBOX", S_true))) = S_true
      enabled == lower(strip(getenv(e, NameUpper(name) \o "_ENABLED", S_false))) = S_true
  IN  ExchangeConfig(name, api_key, api_secret, sandbox, DefaultRateLimit, enabled)

\* one iteration of the loop in _load_exchange_configs
LoadOneExchange(e, name) ==
  LET api_key == getenv(e, NameUpper(name) \o "_API_KEY", EmptyStr)
      api_secret == getenv(e, NameUpper(name) \o "_API_SECRET", EmptyStr)
      sandbox == lower(getenv(e, NameUpper(name) \o "_SANDBOX", S_true)) = S_true
      enabled == lower(getenv(e, NameUpper(name) \o "_ENABLED", S_false)) = S_true
  IN  ExchangeConfig(name, api_key, api_secret, sandbox, DefaultRateLimit, enabled)

\* Settings._load_exchange_configs: the loop over exchange_names from index i,
\* with the dict built so far, the warnings logged so far
RECURSIVE LoadExchangesFrom(_, _, _, _)
LoadExchangesFrom(e, i, exchanges, warnings) ==
  IF i > Len(exchange_names)
    THEN [raised |-> FALSE, exchanges |-> exchanges, warnings |-> warnings]
    ELSE LET name == exchange_names[i]
             made == LoadOneExchange(e, name)
         IN  IF made.raised
               THEN [raised |-> TRUE, exchanges |-> exchanges, warnings |-> warnings]
               ELSE LoadExchangesFrom(e, i + 1,
                      [k \in DOMAIN exchanges \cup {name} |->
                         IF k = name THEN made.obj ELSE exchanges[k]],
                      warnings \o made.warnings)

load_exchange_configs(e) == LoadExchangesFrom(e, 1, << >>, << >>)

(***************************************************************************)
(* Settings._parse_markets                                                 *)
(***************************************************************************)
UnknownMarketWarning(market) == [text |-> "Unknown market type: ", arg |-> market]

\* variant: the token is not trimmed
MarketKey_NoStrip(market) == upper(market)

\* market.strip().upper()
MarketKey(market) == upper(strip(market))

\* variant: a market type already in the list is dropped with a warning
RECURSIVE ParseMarketsFrom_Dedup(_, _, _, _)
ParseMarketsFrom_Dedup(pieces, i, markets, warnings) ==
  IF i > Len(pieces)
    THEN [markets |-> markets, warnings |-> warnings]
    ELSE LET market == pieces[i]
             key == MarketKey(market)
         IN  IF MarketTypeHasKey(key)
                  /\ \A j \in 1..Len(markets) : markets[j] # MarketTypeGetItem(key)
               THEN ParseMarketsFrom_Dedup(pieces, i + 1,
                      Append(markets, MarketTypeGetItem(key)), warnings)
               ELSE ParseMarketsFrom_Dedup(pieces, i + 1, markets,
                      Append(warnings, UnknownMarketWarning(market)))

\* the for loop over markets_str.split(","), from piece i on
RECURSIVE ParseMarketsFrom(_, _, _, _)
ParseMarketsFrom(pieces, i, markets, warnings) ==
  IF i > Len(pieces)
    THEN [markets |-> markets, warnings |-> warnings]
    ELSE LET market == pieces[i]
             key == MarketKey(market)
         IN  IF MarketTypeHasKey(key)
               THEN ParseMarketsFrom(pieces, i + 1,
                      Append(markets, MarketTypeGetItem(key)), warnings)
               ELSE ParseMarketsFrom(pieces, i + 1, markets,
                      Append(warnings, UnknownMarketWarning(market)))

parse_markets(markets_str) == ParseMarketsFrom(split(markets_str), 1, << >>, << >>)

(***************************************************************************)
(* Settings._validate_configuration.  The source file ends inside this     *)
(* function, in the loop over enabled_exchanges: lines 130-141 are         *)
(* modelled from the code, the rest of the loop and the return from the    *)
(* specification (rule 3, "list of error strings (not exceptions)").       *)
(***************************************************************************)
ErrNoFirebase == "FIREBASE_CREDENTIALS_PATH not set"

ErrNoExchange == "No exchanges enabled. Set at least one exchange to enabled=true"

\* [e for e in self.exchanges.values() if e.enabled], in dict insertion order
enabled_exchanges(self) ==
  LET present == SelectSeq(exchange_names, LAMBDA n : n \in DOMAIN self.exchanges)
      chosen == SelectSeq(present, LAMBDA n : self.exchanges[n].enabled)
  IN  [i \in 1..Len(chosen) |-> self.exchanges[chosen[i]]]

\* variant: the second check is an elif of the first
ValidateRules12_FirstOnly(self) ==
  IF self.firebase_credentials = EmptyStr THEN << ErrNoFirebase >>
  ELSE IF enabled_exchanges(self) = << >> THEN << ErrNoExchange >>
  ELSE << >>

\* lines 132-141: the errors list when the loop over enabled_exchanges starts
ValidateRules12(self) ==
  (IF self.firebase_credentials = EmptyStr THEN << ErrNoFirebase >> ELSE << >>)
  \o (IF enabled_exchanges(self) = << >> THEN << ErrNoExchange >> ELSE << >>)

ErrMissingCredentials(name) == "Missing API credentials for exchange " \o name

\* rule 3 of the specification, for the exchanges from index i on
RECURSIVE ValidateRule3From(_, _)
ValidateRule3From(exs, i) ==
  IF i > Len(exs) THEN << >>
  ELSE (IF ~exs[i].sandbox /\ ~(exs[i].api_key # EmptyStr /\ exs[i].api_secret # EmptyStr)
          THEN << ErrMissingCredentials(exs[i].name) >>
          ELSE << >>)
       \o ValidateRule3From(exs, i + 1)

\* the value _validate_configuration hands back: the collected errors
validate_configuration(self) ==
  ValidateRules12(self) \o ValidateRule3From(enabled_exchanges(self), 1)

(***************************************************************************)
(* Settings._initialize: the attributes it sets, what it logs, and the     *)
(* value of the call on line 95, which is not bound to anything.           *)
(***************************************************************************)
SettingsFields ==
  {"firebase_credentials", "firebase_database", "telegram_bot_token",
   "telegram_chat_id", "exchanges", "trading", "enabled_markets", "log_level"}

\* _validate_configuration was not reached
NoValidation == [collected |-> << >>, returned |-> << >>]

initialize(e) ==
  LET loaded == load_exchange_configs(e)
      parsed == parse_markets(getenv(e, "ENABLED_MARKETS", S_CRYPTO))
      early == [firebase_credentials |-> getenv(e, "FIREBASE_CREDENTIALS_PATH", EmptyStr),
                firebase_database |-> getenv(e, "FIREBASE_DATABASE_URL", EmptyStr),
                telegram_bot_token |-> getenv(e, "TELEGRAM_BOT_TOKEN", EmptyStr),
                telegram_chat_id |-> getenv(e, "TELEGRAM_CHAT_ID", EmptyStr)]
      self == [firebase_credentials |-> early.firebase_credentials,
               firebase_database |-> early.firebase_database,
               telegram_bot_token |-> early.telegram_bot_token,
               telegram_chat_id |-> early.telegram_chat_id,
               exchanges |-> loaded.exchanges,
               trading |-> TradingConfig,
               enabled_markets |-> parsed.markets,
               log_level |-> getenv(e, "LOG_LEVEL", S_INFO)]
  IN  IF loaded.raised
        THEN [raised |-> TRUE, self |-> early, warnings |-> loaded.warnings,
              validation |-> NoValidation]
        ELSE [raised |-> FALSE, self |-> self,
              warnings |-> loaded.warnings \o parsed.warnings,
              validation |-> [collected |-> ValidateRules12(self),
                              returned |-> validate_configuration(self)]]

(***************************************************************************)
(* State.                                                                  *)
(*   env        os.environ after load_dotenv()                             *)
(*   instance   Settings._instance: None, or the object and its attributes *)
(*   nextId     identity of the next object super().__new__ creates        *)
(*   initCount  number of times _initialize has run                        *)
(*   callEnvs   the environment at each Settings() call                    *)
(*   log        records handed to logging.warning                          *)
(*   returned   what each Settings() call gave its caller                  *)
(*   lastErrors the errors list of _validate_configuration as line 141     *)
(*              leaves it (collected) and the value of the call on line 95 *)
(*              (returned)                                                 *)
(*   envOps, calls   counters bounding the run                             *)
(*   mk, ec     argument and outcome of a direct _parse_markets /          *)
(*              ExchangeConfig(...) call                                   *)
(***************************************************************************)
VARIABLES env, instance, nextId, initCount, callEnvs, log, returned,
          lastErrors, envOps, calls, mk, ec

vars == <<env, instance, nextId, initCount, callEnvs, log, returned,
          lastErrors, envOps, calls, mk, ec>>

None == [id |-> 0, attrs |-> << >>]

(***************************************************************************)
(* Input values.                                                           *)
(***************************************************************************)
S_TRUE == <<"T","R","U","E">>

S_True == <<"T","r","u","e">>

S_sp_true == <<" ","t","r","u","e">>

S_1 == <<"1">>

S_yes == <<"y","e","s">>

S_key == <<"k","e","y">>

S_path == <<"c",".","j","s","o","n">>

S_markets3 ==
  <<"c","r","y","p","t","o",","," ","b","o","g","u","s",","," ","F","O","R","E","X">>

S_marketsDup == <<"C","R","Y","P","T","O",",","c","r","y","p","t","o">>

S_marketsCR == <<"c","r","y","p","t","o","\r">>

Venues == {exchange_names[i] : i \in 1..Len(exchange_names)}

FlagValues == {S_true, S_TRUE, S_True, S_false, S_sp_true, S_1, S_yes, EmptyStr}

VenueSuffixes == {"_API_KEY", "_API_SECRET", "_SANDBOX", "_ENABLED"}

GlobalNames ==
  {"FIREBASE_CREDENTIALS_PATH", "FIREBASE_DATABASE_URL", "TELEGRAM_BOT_TOKEN",
   "TELEGRAM_CHAT_ID", "ENABLED_MARKETS", "LOG_LEVEL"}

EnvNames == GlobalNames \cup {NameUpper(v) \o sfx : v \in Venues, sfx \in VenueSuffixes}

\* the values a running process sets a variable to
SetValues(name) ==
  IF name = "ENABLED_MARKETS" THEN {S_markets3, S_marketsDup, S_marketsCR}
  ELSE IF name \in {NameUpper(v) \o "_SANDBOX" : v \in Venues} THEN {S_true, S_false, S_sp_true}
  ELSE IF name \in {NameUpper(v) \o "_ENABLED" : v \in Venues} THEN {S_true, S_TRUE, S_false}
  ELSE IF name = "FIREBASE_CREDENTIALS_PATH" THEN {S_path, EmptyStr}
  ELSE {S_key}

\* m1 overridden by m2
Override(m1, m2) ==
  [k \in DOMAIN m1 \cup DOMAIN m2 |-> IF k \in DOMAIN m2 THEN m2[k] ELSE m1[k]]

One(k, v) == [x \in {k} |-> v]

EmptyEnv == << >>

\* environments a process starts with
StartEnvs ==
  { EmptyEnv,
    Override(One("FIREBASE_CREDENTIALS_PATH", S_path),
      Override(One("BINANCE_ENABLED", S_true),
        Override(One("BINANCE_API_KEY", S_key), One("BINANCE_API_SECRET", S_key)))),
    Override(One("KRAKEN_ENABLED", S_TRUE),
      Override(One("KRAKEN_SANDBOX", S_false), One("ENABLED_MARKETS", EmptyStr))) }

MkIdle == [tokens |-> << >>, raw |-> << >>, done |-> FALSE, markets |-> << >>,
           warnings |-> << >>]

EcIdle == [args |-> [name |-> "", api_key |-> EmptyStr, api_secret |-> EmptyStr,
                     sandbox |-> TRUE, rate_limit |-> DefaultRateLimit,
                     enabled |-> FALSE],
           done |-> FALSE, raised |-> FALSE, warnings |-> << >>]

InitWith(e, m, x) ==
  /\ env = e
  /\ instance = None
  /\ nextId = 1
  /\ initCount = 0
  /\ callEnvs = << >>
  /\ log = << >>
  /\ returned = << >>
  /\ lastErrors = NoValidation
  /\ envOps = 0
  /\ calls = 0
  /\ mk = m
  /\ ec = x

Init == \E e \in StartEnvs : InitWith(e, MkIdle, EcIdle)

\* variant: __new__ without the `is None` test
SettingsNew_NoGuard ==
  /\ calls < MaxCalls
  /\ calls' = calls + 1
  /\ callEnvs' = Append(callEnvs, env)
  /\ LET r == initialize(env)
     IN  /\ instance' = [id |-> nextId, attrs |-> r.self]
         /\ nextId' = nextId + 1
         /\ initCount' = initCount + 1
         /\ log' = log \o r.warnings
         /\ lastErrors' = r.validation
         /\ returned' = Append(returned, [raised |-> r.raised, ref |-> nextId])
  /\ UNCHANGED <<env, envOps, mk, ec>>

(***************************************************************************)
(* Settings(): __new__ (object.__init__ does nothing).                     *)
(***************************************************************************)
SettingsNew ==
  /\ calls < MaxCalls
  /\ calls' = calls + 1
  /\ callEnvs' = Append(callEnvs, env)
  /\ IF instance = None
       THEN LET r == initialize(env)
            IN  /\ instance' = [id |-> nextId, attrs |-> r.self]
                /\ nextId' = nextId + 1
                /\ initCount' = initCount + 1
                /\ log' = log \o r.warnings
                /\ lastErrors' = r.validation
                /\ returned' = Append(returned, [raised |-> r.raised, ref |-> nextId])
       ELSE /\ returned' = Append(returned, [raised |-> FALSE, ref |-> instance.id])
            /\ UNCHANGED <<instance, nextId, initCount, log, lastErrors>>
  /\ UNCHANGED <<env, envOps, mk, ec>>

(***************************************************************************)
(* The process changes its environment.                                    *)
(***************************************************************************)
SetEnv(name, value) ==
  /\ envOps < MaxEnvOps
  /\ envOps' = envOps + 1
  /\ env' = Override(env, One(name, value))
  /\ UNCHANGED <<instance, nextId, initCount, callEnvs, log, returned, lastErrors,
                 calls, mk, ec>>

UnsetEnv(name) ==
  /\ envOps < MaxEnvOps
  /\ name \in DOMAIN env
  /\ envOps' = envOps + 1
  /\ env' = [k \in DOMAIN env \ {name} |-> env[k]]
  /\ UNCHANGED <<instance, nextId, initCount, callEnvs, log, returned, lastErrors,
                 calls, mk, ec>>

Next ==
  \/ SettingsNew
  \/ \E name \in EnvNames : \E value \in SetValues(name) : SetEnv(name, value)
  \/ \E name \in EnvNames : UnsetEnv(name)

Spec == Init /\ [][Next]_vars

(***************************************************************************)
(* Loading under a wide range of start environments: one venue takes every *)
(* combination of its four variables, the other venues are unset or        *)
(* enabled, and the global variables vary.                                 *)
(***************************************************************************)
MaybeSet(name, values) == {EmptyEnv} \cup {One(name, v) : v \in values}

RECURSIVE OverrideAll(_)
OverrideAll(ms) ==
  IF ms = {} THEN EmptyEnv
  ELSE LET m == CHOOSE x \in ms : TRUE IN Override(OverrideAll(ms \ {m}), m)

\* the other venues in `on` are enabled, the rest of them unset
OtherVenuesEnv(on) == OverrideAll({One(NameUpper(o) \o "_ENABLED", S_true) : o \in on})

InitLoad ==
  \E v \in Venues :
    \E on \in SUBSET (Venues \ {v}) :
      \E g1 \in MaybeSet("FIREBASE_CREDENTIALS_PATH", {EmptyStr, S_path}),
         g2 \in MaybeSet("ENABLED_MARKETS", {EmptyStr, S_markets3, S_marketsDup}),
         a \in MaybeSet(NameUpper(v) \o "_API_KEY", {S_key}),
         b \in MaybeSet(NameUpper(v) \o "_API_SECRET", {S_key}),
         c \in MaybeSet(NameUpper(v) \o "_SANDBOX", FlagValues),
         d \in MaybeSet(NameUpper(v) \o "_ENABLED", FlagValues) :
        InitWith(Override(g1, Override(g2, Override(OtherVenuesEnv(on),
                   Override(a, Override(b, Override(c, d)))))),
                 MkIdle, EcIdle)

NextLoad == SettingsNew

SpecLoad == InitLoad /\ [][NextLoad]_vars

(***************************************************************************)
(* _parse_markets called on strings made of tokens joined by commas.       *)
(***************************************************************************)
MarketTokens ==
  { <<"c","r","y","p","t","o">>, S_CRYPTO, <<" ","F","O","R","E","X">>,
    <<" ","b","o","g","u","s">>, EmptyStr, <<"E","q","u","i","t","i","e","s"," ">>,
    <<"\t","f","u","t","u","r","e","s","\n">>, <<"c","r","y"," ","p","t","o">>,
    <<"c","r","y","p","t","o","\r">>, <<"\f","U+00A0","f","o","r","e","x">>,
    <<"e","q","u","U+0131","t","U+0131","e","s">>, <<"f","u","t","u","r","e","U+017F">>,
    <<"U+FB01","o","r","e","x">> }

RECURSIVE Join(_)
Join(tokens) ==
  IF Len(tokens) = 1 THEN tokens[1]
  ELSE tokens[1] \o <<",">> \o Join(Tail(tokens))

ParseMarketsCall ==
  /\ ~mk.done
  /\ mk.tokens # << >>
  /\ LET r == parse_markets(mk.raw)
     IN  mk' = [mk EXCEPT !.done = TRUE, !.markets = r.markets,
                          !.warnings = r.warnings]
  /\ UNCHANGED <<env, instance, nextId, initCount, callEnvs, log, returned,
                 lastErrors, envOps, calls, ec>>

InitMarkets ==
  \E n \in 1..MaxTokens :
    \E t \in [1..n -> MarketTokens] :
      InitWith(EmptyEnv, [MkIdle EXCEPT !.tokens = t, !.raw = Join(t)], EcIdle)

NextMarkets == ParseMarketsCall

SpecMarkets == InitMarkets /\ [][NextMarkets]_vars

(***************************************************************************)
(* ExchangeConfig(...) called with arbitrary field values, next to loads   *)
(* of the fixed venue list.                                                *)
(***************************************************************************)
ExchangeInputs ==
  { [EcIdle EXCEPT !.args = a] :
      a \in [name : Venues \cup {"", "ftx"},
             api_key : {EmptyStr, S_key},
             api_secret : {EmptyStr, S_key},
             sandbox : BOOLEAN,
             rate_limit : {DefaultRateLimit, 60},
             enabled : BOOLEAN] }

ConstructExchange ==
  /\ ~ec.done
  /\ LET a == ec.args
         r == ExchangeConfig(a.name, a.api_key, a.api_secret, a.sandbox,
                             a.rate_limit, a.enabled)
     IN  ec' = [ec EXCEPT !.done = TRUE, !.raised = r.raised,
                          !.warnings = r.warnings]
  /\ UNCHANGED <<env, instance, nextId, initCount, callEnvs, log, returned,
                 lastErrors, envOps, calls, mk>>

InitExchange == \E e \in StartEnvs : \E x \in ExchangeInputs : InitWith(e, MkIdle, x)

NextExchange == ConstructExchange \/ SettingsNew

SpecExchange == InitExchange /\ [][NextExchange]_vars

(***************************************************************************)
(* Properties.                                                             *)
(***************************************************************************)
Range(q) == {q[i] : i \in DOMAIN q}

\* "true" in any mix of upper and lower case, nothing before or after it
IsTrueText(t) ==
  /\ Len(t) = 4
  /\ t[1] \in {"t", "T"}
  /\ t[2] \in {"r", "R"}
  /\ t[3] \in {"u", "U"}
  /\ t[4] \in {"e", "E"}

VenueKey(v, sfx) == NameUpper(v) \o sfx

\* venues whose {VENUE}_ENABLED is set to true in environment e
EnabledInputs(e) ==
  {v \in Venues : VenueKey(v, "_ENABLED") \in DOMAIN e /\ IsTrueText(e[VenueKey(v, "_ENABLED")])}

EnabledLoaded == {v \in Venues : instance.attrs.exchanges[v].enabled}

NoVenueInput(e) == \A v \in Venues : \A sfx \in VenueSuffixes : VenueKey(v, sfx) \notin DOMAIN e

NoCredentialsPath(e) ==
  "FIREBASE_CREDENTIALS_PATH" \notin DOMAIN e \/ e["FIREBASE_CREDENTIALS_PATH"] = EmptyStr

Occurrences(q, x) == Cardinality({i \in DOMAIN q : q[i] = x})

\* C1: _initialize runs exactly once, on the first Settings() call; every call
\* returns the same instance; the attributes of that instance are the ones
\* computed from the environment of the first call, whatever the environment
\* has become since.
C1_SingletonFrozen ==
  /\ initCount = (IF calls = 0 THEN 0 ELSE 1)
  /\ calls = 0 => instance = None
  /\ calls > 0 =>
       /\ \A i \in DOMAIN returned :
            /\ ~returned[i].raised
            /\ returned[i].ref = returned[1].ref
            /\ returned[i].ref = instance.id
       /\ DOMAIN instance.attrs = SettingsFields
       /\ instance.attrs = initialize(callEnvs[1]).self

\* a second call made under an environment that would load differently
C1_Witness ==
  /\ calls = 2
  /\ callEnvs[2] # callEnvs[1]
  /\ initialize(callEnvs[2]).self # initialize(callEnvs[1]).self
  /\ returned[2].ref = returned[1].ref

\* C2: validation collects every violated rule: the missing-credentials-path
\* message is in the list exactly when the path is unset or empty, the
\* no-exchange-enabled message exactly when no exchange is enabled, each
\* independently of the other; with both rules violated the list holds at
\* least two distinct messages; nothing is raised.
C2_ValidationCollectsAll ==
  calls > 0 =>
    /\ Occurrences(lastErrors.returned, ErrNoFirebase) = (IF NoCredentialsPath(callEnvs[1]) THEN 1 ELSE 0)
    /\ Occurrences(lastErrors.returned, ErrNoExchange) = (IF EnabledLoaded = {} THEN 1 ELSE 0)
    /\ ErrNoFirebase # ErrNoExchange
    /\ (NoCredentialsPath(callEnvs[1]) /\ EnabledLoaded = {}) =>
          Cardinality(Range(lastErrors.returned)) >= 2
    /\ ~returned[1].raised

C2_Witness ==
  /\ calls > 0
  /\ NoCredentialsPath(callEnvs[1])
  /\ EnabledLoaded = {}
  /\ {ErrNoFirebase, ErrNoExchange} \subseteq Range(lastErrors.returned)

\* an invalid marker travels with the aggregate: an attribute beyond the
\* configuration fields, or a call that hands back something else than the
\* aggregate
FlaggedInvalid ==
  \/ \E a \in DOMAIN instance.attrs : a \notin SettingsFields
  \/ \E i \in DOMAIN returned : returned[i].raised \/ returned[i].ref # instance.id

\* C3: after construction, an aggregate with no enabled exchange or with an
\* empty firebase_credentials is flagged invalid.
C3_InvalidIsFlagged ==
  (calls > 0 /\ (EnabledLoaded = {} \/ instance.attrs.firebase_credentials = EmptyStr))
    => FlaggedInvalid

\* C4: the enabled exchanges of the loaded mapping are exactly the venues
\* whose {VENUE}_ENABLED is set to true (in any letter case); with exactly one
\* such venue exactly one exchange is enabled and the no-exchange-enabled
\* error is not produced.
C4_EnabledExactlyAsSet ==
  calls > 0 =>
    /\ DOMAIN instance.attrs.exchanges = Venues
    /\ EnabledLoaded = EnabledInputs(callEnvs[1])
    /\ Cardinality(EnabledInputs(callEnvs[1])) = 1 =>
         /\ Cardinality(EnabledLoaded) = 1
         /\ ErrNoExchange \notin Range(lastErrors.collected)

C4_Witness ==
  /\ calls > 0
  /\ \E v \in Venues :
       /\ EnabledInputs(callEnvs[1]) = {v}
       /\ callEnvs[1][VenueKey(v, "_ENABLED")] = S_true
       /\ {VenueKey(v, "_API_KEY"), VenueKey(v, "_API_SECRET")} \subseteq DOMAIN callEnvs[1]
       /\ EnabledLoaded = {v}
       /\ ErrNoExchange \notin Range(lastErrors.collected)

\* C5: with none of the {VENUE}_* variables set, the mapping has exactly the
\* keys binance, coinbase, kraken, bybit and each entry has its key as name,
\* sandbox true, enabled false, empty credentials and rate_limit 1000.
C5_DefaultExchanges ==
  (calls > 0 /\ NoVenueInput(callEnvs[1])) =>
    /\ DOMAIN instance.attrs.exchanges = {"binance", "coinbase", "kraken", "bybit"}
    /\ \A v \in DOMAIN instance.attrs.exchanges :
         instance.attrs.exchanges[v] =
           [name |-> v, api_key |-> << >>, api_secret |-> << >>, sandbox |-> TRUE,
            rate_limit |-> 1000, enabled |-> FALSE]

C5_Witness ==
  /\ calls > 0
  /\ NoVenueInput(callEnvs[1])
  /\ instance.attrs.exchanges["bybit"].sandbox
  /\ ~instance.attrs.exchanges["bybit"].enabled

KnownToken(t) == upper(strip(t)) \in {S_CRYPTO, S_EQUITIES, S_FOREX, S_FUTURES}

UnknownToken(t) == ~KnownToken(t)

\* C6: _parse_markets returns, in input order, the market type of every
\* comma-separated token that trimmed and uppercased is CRYPTO, EQUITIES,
\* FOREX or FUTURES; every other token is dropped with one warning;
\* "crypto, bogus, FOREX" gives [CRYPTO, FOREX] and one warning, "" gives
\* the empty list and one warning.
C6_ParseMarkets ==
  mk.done =>
    LET kept == SelectSeq(mk.tokens, KnownToken)
        dropped == SelectSeq(mk.tokens, UnknownToken)
    IN  /\ mk.markets = [i \in 1..Len(kept) |-> MarketTypeGetItem(upper(strip(kept[i])))]
        /\ mk.warnings = [i \in 1..Len(dropped) |-> UnknownMarketWarning(dropped[i])]
        /\ Range(mk.markets) \subseteq MarketType
        /\ mk.raw = S_markets3 =>
             /\ mk.markets = <<"CRYPTO", "FOREX">>
             /\ mk.warnings = << UnknownMarketWarning(<<" ","b","o","g","u","s">>) >>
        /\ mk.raw = EmptyStr =>
             /\ mk.markets = << >>
             /\ Len(mk.warnings) = 1
        /\ mk.raw = <<"c","r","y","p","t","o","\r">> =>
             /\ mk.markets = <<"CRYPTO">>
             /\ mk.warnings = << >>
        /\ mk.raw = <<"e","q","u","U+0131","t","U+0131","e","s">> =>
             /\ mk.markets = <<"EQUITIES">>
             /\ mk.warnings = << >>
        /\ mk.raw = <<"U+FB01","o","r","e","x">> =>
             /\ mk.markets = << >>
             /\ Len(mk.warnings) = 1

C6_Witness ==
  /\ mk.done
  /\ mk.raw = S_markets3
  /\ mk.markets = <<"CRYPTO", "FOREX">>
  /\ Len(mk.warnings) = 1

MarketsInput == getenv(callEnvs[1], "ENABLED_MARKETS", S_CRYPTO)

UnknownMarketWarnings ==
  Cardinality({i \in DOMAIN log : log[i].text = "Unknown market type: "})

Commas(t) == Cardinality({i \in DOMAIN t : t[i] = ","})

\* C7 as stated: enabled_markets never holds the same market type twice.
C7_NoDuplicateMarkets ==
  calls > 0 =>
    \A i, j \in DOMAIN instance.attrs.enabled_markets :
      i # j => instance.attrs.enabled_markets[i] # instance.attrs.enabled_markets[j]

\* C7 amended: every token of ENABLED_MARKETS gives either one entry of
\* enabled_markets or one unknown-market warning, so a repeated market type
\* is kept: "CRYPTO,crypto" loads as [CRYPTO, CRYPTO] without a warning.
C7_RepeatedMarketsKept ==
  calls > 0 =>
    /\ Range(instance.attrs.enabled_markets) \subseteq MarketType
    /\ Len(instance.attrs.enabled_markets) + UnknownMarketWarnings = Commas(MarketsInput) + 1
    /\ MarketsInput = S_marketsDup =>
         /\ instance.attrs.enabled_markets = <<"CRYPTO", "CRYPTO">>
         /\ UnknownMarketWarnings = 0

C7_Witness ==
  /\ calls > 0
  /\ MarketsInput = S_marketsDup
  /\ instance.attrs.enabled_markets = <<"CRYPTO", "CRYPTO">>

MissingCredentials(a) == a.api_key = EmptyStr \/ a.api_secret = EmptyStr

\* C8 as stated: constructing an ExchangeConfig (with a name) logs the
\* missing-credentials warning exactly when sandbox is false, enabled is true
\* and a credential is empty.
C8_WarningOnlyWhenEnabled ==
  (ec.done /\ ec.args.name # "") =>
    /\ ~ec.raised
    /\ ec.warnings # << >> <=>
         (~ec.args.sandbox /\ ec.args.enabled /\ MissingCredentials(ec.args))

\* C8 amended: constructing an ExchangeConfig with a name logs the warning
\* exactly when sandbox is false and a credential is empty, whatever enabled
\* is (so also for a disabled exchange); it is never logged for a sandbox
\* exchange and construction does not fail.
C8_WarningWheneverProduction ==
  (ec.done /\ ec.args.name # "") =>
    /\ ~ec.raised
    /\ ec.warnings =
         (IF ~ec.args.sandbox /\ MissingCredentials(ec.args)
            THEN << MissingCredentialsWarning(ec.args.name) >>
            ELSE << >>)

C8_Witness ==
  /\ ec.done
  /\ ~ec.args.enabled
  /\ ~ec.args.sandbox
  /\ ec.args.api_key # EmptyStr
  /\ ec.args.api_secret = EmptyStr
  /\ ec.warnings # << >>

\* C9: constructing an ExchangeConfig raises exactly when name is empty,
\* whatever the other fields; loading the fixed venue list never raises.
C9_RaisesIffEmptyName ==
  /\ ec.done => (ec.raised <=> ec.args.name = "")
  /\ \A i \in DOMAIN returned : ~returned[i].raised

C9_Witness ==
  /\ ec.done
  /\ ec.raised
  /\ ec.args.name = ""
  /\ ec.args.api_key # EmptyStr
  /\ calls > 0
  /\ DOMAIN instance.attrs.exchanges = Venues

\* C10: for every venue, sandbox is true exactly when {VENUE}_SANDBOX is
\* absent or is "true" in any letter case, untrimmed; enabled is true exactly
\* when {VENUE}_ENABLED is present and is "true" in any letter case; so "1",
\* "yes", " true" and "" as {VENUE}_SANDBOX give sandbox = false.
C10_FlagParsing ==
  calls > 0 =>
    \A v \in Venues :
      LET e == callEnvs[1]
          sb == VenueKey(v, "_SANDBOX")
          en == VenueKey(v, "_ENABLED")
          x == instance.attrs.exchanges[v]
      IN  /\ x.sandbox <=> (sb \notin DOMAIN e \/ IsTrueText(e[sb]))
          /\ x.enabled <=> (en \in DOMAIN e /\ IsTrueText(e[en]))
          /\ (sb \in DOMAIN e /\ e[sb] \in {S_1, S_yes, S_sp_true, EmptyStr}) => ~x.sandbox

C10_Witness ==
  /\ calls > 0
  /\ \E v \in Venues :
       /\ VenueKey(v, "_SANDBOX") \in DOMAIN callEnvs[1]
       /\ callEnvs[1][VenueKey(v, "_SANDBOX")] = S_sp_true
       /\ ~instance.attrs.exchanges[v].sandbox
       /\ VenueKey(v, "_ENABLED") \in DOMAIN callEnvs[1]
       /\ callEnvs[1][VenueKey(v, "_ENABLED")] = S_TRUE
       /\ instance.attrs.exchanges[v].enabled

====
